---------------------------- MODULE Spec2Model ----------------------------
(***************************************************************************)
(* A model of the hybrid waterfall visual (class Visual): parseData,       *)
(* computeBarPositions, renderChart, renderEmptyState, formatValue and     *)
(* update, with the formatting settings of settings.ts.                    *)
(*                                                                         *)
(* Numbers.  Measure values, sequence values and running totals are        *)
(* integers.  Pixel quantities (bar width, gap, x and y coordinates) are   *)
(* exact rationals [n, d] in lowest terms with d > 0: the code computes    *)
(* them in IEEE doubles, whose rounding error is not modelled.             *)
(*                                                                         *)
(* Strings that the code builds (formatted values, tooltips) are TLA+      *)
(* strings built character by character.  An attribute the code writes     *)
(* with String(number) is kept as the number.                              *)
(***************************************************************************)
EXTENDS Integers, Sequences, FiniteSets, TLC

VARIABLES
    formattingSettings,  \* Visual.formattingSettings
    bars,                \* Visual.bars
    svg,                 \* Visual.svgContainer: [width, height, children]
    computedBarWidth,    \* (this as any)._computedBarWidth
    computedBarGap,      \* (this as any)._computedBarGap
    options,             \* the argument of the last update call (history)
    pc,                  \* position of the call in progress
    arg,                 \* argument of a function called on its own
    ret                  \* value returned by a function called on its own

vars == <<formattingSettings, bars, svg, computedBarWidth, computedBarGap,
          options, pc, arg, ret>>

-----------------------------------------------------------------------------
(* Bounds of the model *)

MaxRows == 3

MaxMeasureRows == 2

-----------------------------------------------------------------------------
(* Exact rational arithmetic for the pixel quantities *)

Abs(i) == IF i < 0 THEN -i ELSE i

RECURSIVE GCD(_, _)
GCD(a, b) == IF b = 0 THEN a ELSE GCD(b, a % b)

\* n/d in lowest terms with a positive denominator (d # 0).
Rat(n, d) ==
    LET s == IF d < 0 THEN -1 ELSE 1
        g == GCD(Abs(n), Abs(d))
    IN  [n |-> (s * n) \div g, d |-> (s * d) \div g]

R(i) == [n |-> i, d |-> 1]

RAdd(a, b) == Rat(a.n * b.d + b.n * a.d, a.d * b.d)
RSub(a, b) == Rat(a.n * b.d - b.n * a.d, a.d * b.d)
RMul(a, b) == Rat(a.n * b.n, a.d * b.d)
RDiv(a, b) == Rat(a.n * b.d, a.d * b.n)
RLt(a, b) == a.n * b.d < b.n * a.d
RLe(a, b) == a.n * b.d <= b.n * a.d
RMin(a, b) == IF RLt(b, a) THEN b ELSE a
RMax(a, b) == IF RLt(a, b) THEN b ELSE a
RAbs(a) == [n |-> Abs(a.n), d |-> a.d]

-----------------------------------------------------------------------------
(* Strings *)

Digits == "0123456789"
UpperCase == "ABCDEFGHIJKLMNOPQRSTUVWXYZ"
LowerCase == "abcdefghijklmnopqrstuvwxyz"

Char(s, i) == SubSeq(s, i, i)

\* The decimal digits of a natural number.
RECURSIVE NatToString(_)
NatToString(k) ==
    IF k < 10 THEN Char(Digits, k + 1)
    ELSE NatToString(k \div 10) \o Char(Digits, (k % 10) + 1)

\* String(n) of an integer.
IntToString(i) == IF i < 0 THEN "-" \o NatToString(-i) ELSE NatToString(i)

\* The lower-case letter of each upper-case letter.
LowerOf == [c \in {Char(UpperCase, k) : k \in 1..26} |->
               Char(LowerCase, CHOOSE k \in 1..26 : Char(UpperCase, k) = c)]

LowerChar(c) == IF c \in DOMAIN LowerOf THEN LowerOf[c] ELSE c

\* String.prototype.toLowerCase
RECURSIVE toLowerCase(_)
toLowerCase(s) ==
    IF Len(s) = 0 THEN s
    ELSE LowerChar(Char(s, 1)) \o toLowerCase(SubSeq(s, 2, Len(s)))

-----------------------------------------------------------------------------
(* The cells of the host's column-oriented table (PrimitiveValue), and the *)
(* JavaScript coercions the code applies to them.  A string cell of the    *)
(* model is empty or not numeric.                                          *)

Num(k) == [t |-> "number", n |-> k, s |-> ""]
Str(x) == [t |-> "string", n |-> 0, s |-> x]
Null == [t |-> "null", n |-> 0, s |-> ""]

\* Number(cell): NaN for a non-empty string, 0 for null and "".
Number(c) ==
    CASE c.t = "number" -> [nan |-> FALSE, n |-> c.n]
      [] c.t = "string" -> [nan |-> c.s # "", n |-> 0]
      [] OTHER -> [nan |-> FALSE, n |-> 0]

\* Number(cell) || dflt
NumberOr(c, dflt) ==
    LET x == Number(c) IN IF x.nan \/ x.n = 0 THEN dflt ELSE x.n

Falsy(c) ==
    \/ c.t = "null"
    \/ c.t = "string" /\ c.s = ""
    \/ c.t = "number" /\ c.n = 0

\* String(cell || dflt)
StringOr(c, dflt) ==
    IF Falsy(c) THEN dflt
    ELSE IF c.t = "number" THEN IntToString(c.n) ELSE c.s

-----------------------------------------------------------------------------
(* settings.ts: the formatting settings and their defaults *)

DefaultChartSettings ==
    [barWidth |-> 40, barGap |-> 10, showValues |-> TRUE,
     valueFontSize |-> 10, showConnectors |-> TRUE]

DefaultColorSettings ==
    [defaultBarColor |-> "#4472C4", subtotalColor |-> "#5B9BD5",
     totalColor |-> "#2B5797", usePatternForSubtotal |-> TRUE,
     usePatternForTotal |-> FALSE, separatorColor |-> "#666666",
     connectorColor |-> "#999999"]

DefaultAxisSettings ==
    [showXAxis |-> TRUE, xAxisFontSize |-> 11, labelRotation |-> 0,
     xAxisColor |-> "#333333"]

VisualFormattingSettingsModel ==
    [chartSettings |-> DefaultChartSettings,
     colorSettings |-> DefaultColorSettings,
     axisSettings |-> DefaultAxisSettings]

\* The settings with some chart, color and axis options changed in the pane.
WithChart(fs, w, g, values, connectors) ==
    [fs EXCEPT !.chartSettings.barWidth = w, !.chartSettings.barGap = g,
               !.chartSettings.showValues = values,
               !.chartSettings.showConnectors = connectors]

WithPatterns(fs, sub, tot) ==
    [fs EXCEPT !.colorSettings.usePatternForSubtotal = sub,
               !.colorSettings.usePatternForTotal = tot]

WithAxis(fs, show, rotation) ==
    [fs EXCEPT !.axisSettings.showXAxis = show,
               !.axisSettings.labelRotation = rotation]

-----------------------------------------------------------------------------
(* The host's data view.  objects stands for the formatting objects the    *)
(* host stores in the data view's metadata, already merged with defaults.  *)

NoDataView ==
    [defined |-> FALSE, hasCategorical |-> FALSE, hasCategories |-> FALSE,
     categories |-> <<>>, hasValues |-> FALSE, values |-> <<>>,
     objects |-> VisualFormattingSettingsModel]

\* A data view without a categorical mapping.
NoCategorical(fs) == [NoDataView EXCEPT !.defined = TRUE, !.objects = fs]

\* A categorical data view whose categories are undefined.
NoCategories(fs) ==
    [NoDataView EXCEPT !.defined = TRUE, !.hasCategorical = TRUE, !.objects = fs]

\* A row of the table as the report author sees it: the cells of the three
\* categorical fields and of the measures.
Row(category, barType, sequence, measures) ==
    [category |-> category, barType |-> barType, sequence |-> sequence,
     measures |-> measures]

Column(rows, field) == [values |-> [i \in 1..Len(rows) |-> rows[i][field]]]

ValueColumn(rows, names, v) ==
    [source |-> [displayName |-> names[v]],
     values |-> [i \in 1..Len(rows) |-> rows[i].measures[v]]]

\* The categorical data view of rows with the first nCat of the categorical
\* columns (category, barType, sequence) and one value column per name.
DataViewOf(rows, nCat, names, fs) ==
    [defined |-> TRUE, hasCategorical |-> TRUE, hasCategories |-> TRUE,
     categories |->
        SubSeq(<<Column(rows, "category"), Column(rows, "barType"),
                 Column(rows, "sequence")>>, 1, nCat),
     hasValues |-> Len(names) > 0,
     values |-> [v \in 1..Len(names) |-> ValueColumn(rows, names, v)],
     objects |-> fs]

\* FormattingSettingsService.populateFormattingSettingsModel
populateFormattingSettingsModel(dataView) ==
    IF dataView.defined THEN dataView.objects ELSE VisualFormattingSettingsModel

\* host.colorPalette.getColor(name).value: the host's color for a measure
\* name, a fixed lookup; "" when the host yields none.
getColor(measureName) ==
    CASE measureName = "Actual" -> "#01B8AA"
      [] measureName = "Plan" -> "#FD625E"
      [] measureName = "Value 2" -> "#F2C80F"
      [] OTHER -> ""

-----------------------------------------------------------------------------
(* Visual.parseData *)

\* Lines 109-113: the bar type of a raw tag.
MapBarType(barTypeRaw) ==
    IF barTypeRaw = "subtotal" THEN "subtotal"
    ELSE IF barTypeRaw = "total" THEN "total"
    ELSE IF barTypeRaw = "bar" THEN "bar"
    ELSE "step"

\* Line 107: the sequence of row i (0-based) of the third categorical column.
SequenceOf(cell, i) == NumberOr(cell, i)

\* A variant of StackedEntry that pushes an entry for a zero measure too.
StackedEntryKeepingZero(valueCol, v, i, defaultColor) ==
    LET val == NumberOr(valueCol.values[i], 0)
        measureName ==
            IF valueCol.source.displayName # "" THEN valueCol.source.displayName
            ELSE "Value " \o IntToString(v)
        palette == getColor(measureName)
        color == IF palette # "" THEN palette ELSE defaultColor
    IN  <<[measureName |-> measureName, value |-> val, color |-> color]>>

\* Lines 121-131, one value column v (1-based) of row i (1-based): the entry
\* pushed on stackedValues, or none.
StackedEntry(valueCol, v, i, defaultColor) ==
    LET val == NumberOr(valueCol.values[i], 0)
        measureName ==
            IF valueCol.source.displayName # "" THEN valueCol.source.displayName
            ELSE "Value " \o IntToString(v)
        palette == getColor(measureName)
        color == IF palette # "" THEN palette ELSE defaultColor
    IN  IF val # 0
        THEN <<[measureName |-> measureName, value |-> val, color |-> color]>>
        ELSE <<>>

\* Lines 116-132: the loop over the value columns, from column v on.
RECURSIVE CollectStacked(_, _, _, _)
CollectStacked(valueColumns, v, i, defaultColor) ==
    IF v > Len(valueColumns) THEN <<>>
    ELSE StackedEntry(valueColumns[v], v, i, defaultColor)
         \o CollectStacked(valueColumns, v + 1, i, defaultColor)

\* Line 130: totalValue accumulates the values pushed.
RECURSIVE SumValues(_)
SumValues(stackedValues) ==
    IF Len(stackedValues) = 0 THEN 0
    ELSE stackedValues[1].value + SumValues(Tail(stackedValues))

\* Lines 105-143: the bar of row i (1-based; the code's index is i - 1).
ParseRow(dataView, i, defaultColor) ==
    LET categoryColumn == dataView.categories[1]
        barTypeColumn == dataView.categories[2]
        valueColumns == IF dataView.hasValues THEN dataView.values ELSE <<>>
        stackedValues == CollectStacked(valueColumns, 1, i, defaultColor)
    IN  [category |-> StringOr(categoryColumn.values[i], ""),
         barType |-> MapBarType(toLowerCase(StringOr(barTypeColumn.values[i], "step"))),
         sequence |->
            IF Len(dataView.categories) > 2
            THEN SequenceOf(dataView.categories[3].values[i], i - 1)
            ELSE i - 1,
         stackedValues |-> stackedValues,
         totalValue |-> SumValues(stackedValues),
         startY |-> 0, endY |-> 0, xPosition |-> R(0)]

\* Line 147: bars.sort((a, b) => a.sequence - b.sequence), a stable sort.
\* b is inserted after every bar whose sequence is not greater than its own.
RECURSIVE InsertBySequence(_, _)
InsertBySequence(sorted, b) ==
    IF Len(sorted) = 0 THEN <<b>>
    ELSE IF sorted[Len(sorted)].sequence - b.sequence <= 0
         THEN Append(sorted, b)
         ELSE Append(InsertBySequence(SubSeq(sorted, 1, Len(sorted) - 1), b),
                     sorted[Len(sorted)])

RECURSIVE SortBySequence(_)
SortBySequence(list) ==
    IF Len(list) = 0 THEN <<>>
    ELSE InsertBySequence(SortBySequence(SubSeq(list, 1, Len(list) - 1)),
                          list[Len(list)])

\* Lines 89-150.
parseData(dataView, settings) ==
    IF \/ ~dataView.hasCategorical
       \/ ~dataView.hasCategories
       \/ Len(dataView.categories) < 2
    THEN <<>>
    ELSE LET n == Len(dataView.categories[1].values)
             defaultColor == settings.colorSettings.defaultBarColor
         IN  SortBySequence([i \in 1..n |-> ParseRow(dataView, i, defaultColor)])

-----------------------------------------------------------------------------
(* The state after the constructor (lines 46-57) *)

Undefined == [undefined |-> TRUE]

NoCall == [called |-> FALSE]

EmptySvg == [width |-> Undefined, height |-> Undefined, children |-> <<>>]

Constructed ==
    /\ formattingSettings = Undefined
    /\ bars = <<>>
    /\ svg = EmptySvg
    /\ computedBarWidth = Undefined
    /\ computedBarGap = Undefined
    /\ options = NoCall

-----------------------------------------------------------------------------
(* parseData called on its own: the data views it is given *)

CategoryNames == "ABCDEFGH"

\* All sequences of length 1..n over the set S.
SeqsUpTo(S, n) == UNION {[1..k -> S] : k \in 1..n}

SequenceCells == {Num(-1), Num(0), Num(1), Num(2), Null}

TypeCells ==
    {Str("step"), Str("Subtotal"), Str("TOTAL"), Str("bar"), Str("other"), Null}

MeasureCells == {Num(0), Num(3), Num(-2), Null, Str("n/a")}

MeasureNames == <<"Actual", "">>

\* Rows that differ in their sequence cell.
SequenceRows ==
    {[i \in 1..Len(q) |->
        Row(Str(Char(CategoryNames, i)), Str("step"), q[i], <<Num(i), Num(0)>>)] :
     q \in SeqsUpTo(SequenceCells, MaxRows)}

\* Rows that differ in their bar type tag.
TypeRows ==
    {[i \in 1..Len(q) |->
        Row(Str(Char(CategoryNames, i)), q[i], Null, <<Num(i), Num(0)>>)] :
     q \in SeqsUpTo(TypeCells, MaxRows)}

\* Rows that differ in their measure cells.
MeasureRows ==
    {[i \in 1..Len(q) |->
        Row(Str(Char(CategoryNames, i)), Str("step"), Null, q[i])] :
     q \in SeqsUpTo(MeasureCells \X MeasureCells, MaxMeasureRows)}

ParseDataViews ==
    {DataViewOf(rows, 3, MeasureNames, VisualFormattingSettingsModel) :
        rows \in SequenceRows \cup MeasureRows}
    \cup {DataViewOf(rows, 2, MeasureNames, VisualFormattingSettingsModel) :
            rows \in TypeRows}

InitParse ==
    /\ Constructed
    /\ pc = "call"
    /\ arg \in ParseDataViews
    /\ ret = Undefined

\* this.parseData(dataView) with the settings update has populated.
CallParseData ==
    /\ pc = "call"
    /\ pc' = "return"
    /\ ret' = parseData(arg, populateFormattingSettingsModel(arg))
    /\ UNCHANGED <<formattingSettings, bars, svg, computedBarWidth,
                   computedBarGap, options, arg>>

NextParse == CallParseData

SpecParse == InitParse /\ [][NextParse]_vars

-----------------------------------------------------------------------------
(* Claims about parseData *)

\* The number of rows of a data view with at least two categorical columns.
RowCount(dataView) == Len(dataView.categories[1].values)

\* The input row (1-based) a bar was made from: the model's rows carry
\* distinct categories.
RowOf(dataView, bar) ==
    CHOOSE i \in 1..RowCount(dataView) :
        dataView.categories[1].values[i].s = bar.category

HasSequenceColumn(dataView) == Len(dataView.categories) > 2

SuppliedSequence(dataView, i) == dataView.categories[3].values[i]

AllSequencesNumeric(dataView) ==
    /\ HasSequenceColumn(dataView)
    /\ \A i \in 1..RowCount(dataView) :
          SuppliedSequence(dataView, i).t = "number"

OneBarPerRow(dataView, list) ==
    /\ Len(list) = RowCount(dataView)
    /\ \A i \in 1..RowCount(dataView) :
          Cardinality({k \in 1..Len(list) :
              list[k].category = dataView.categories[1].values[i].s}) = 1

\* The bars are in ascending order of the sequence values supplied, rows of
\* equal sequence in input order.
OrderedBySuppliedSequence(dataView, list) ==
    \A k, l \in 1..Len(list) :
        k < l =>
            LET i == RowOf(dataView, list[k])
                j == RowOf(dataView, list[l])
                si == SuppliedSequence(dataView, i).n
                sj == SuppliedSequence(dataView, j).n
            IN  si < sj \/ (si = sj /\ i < j)

\* C1 (as claimed): for a table whose rows all supply a numeric sequence,
\* parseData returns one bar per row, in ascending order of the supplied
\* sequence values (0 and negatives included), ties in input order.
C1_SortedBySuppliedSequence ==
    (pc = "return" /\ AllSequencesNumeric(arg)) =>
        /\ OneBarPerRow(arg, ret)
        /\ OrderedBySuppliedSequence(arg, ret)

\* The measures of row i that the claim keeps: the numeric, non-zero cells,
\* in column order, as <<column, value>>.
RECURSIVE KeptMeasures(_, _, _)
KeptMeasures(dataView, i, v) ==
    IF v > Len(dataView.values) THEN <<>>
    ELSE LET c == dataView.values[v].values[i]
         IN  (IF c.t = "number" /\ c.n # 0 THEN <<<<v, c.n>>>> ELSE <<>>)
             \o KeptMeasures(dataView, i, v + 1)

ColumnName(dataView, v) ==
    IF dataView.values[v].source.displayName # ""
    THEN dataView.values[v].source.displayName
    ELSE "Value " \o IntToString(v)

RECURSIVE SumOfKept(_)
SumOfKept(kept) == IF kept = <<>> THEN 0 ELSE kept[1][2] + SumOfKept(Tail(kept))

StackedAsClaimed(dataView, bar) ==
    LET kept == KeptMeasures(dataView, RowOf(dataView, bar), 1)
    IN  /\ Len(bar.stackedValues) = Len(kept)
        /\ \A e \in 1..Len(kept) :
              /\ bar.stackedValues[e].value = kept[e][2]
              /\ bar.stackedValues[e].measureName = ColumnName(dataView, kept[e][1])
        /\ bar.totalValue = SumOfKept(kept)

\* C7: stackedValues of every bar holds exactly the non-zero measures of its
\* row, in column order, values unchanged; a zero, missing or non-numeric
\* measure adds no entry; totalValue is the sum of the values kept.
C7_StackedValuesAreNonZeroMeasures ==
    pc = "return" => \A k \in 1..Len(ret) : StackedAsClaimed(arg, ret[k])

\* A row with a zero, a negative and a dropped non-numeric measure next to
\* rows that keep both measures.
C7_Witness ==
    /\ pc = "return"
    /\ Len(ret) = 2
    /\ arg.values[1].values[1] = Num(0)
    /\ arg.values[2].values[1] = Num(-2)
    /\ Len(ret[1].stackedValues) = 1
    /\ ret[1].totalValue = -2
    /\ Len(ret[2].stackedValues) = 2
    /\ ret[2].totalValue = 1

-----------------------------------------------------------------------------
(* Visual.computeBarPositions *)

MarginLeft == 50

MarginRight == 20

\* Line 164
GapRatio(chartSettings) == Rat(chartSettings.barGap, chartSettings.barWidth)

\* A variant of TotalUnits that counts the bars and forgets the gaps.
TotalUnitsWithoutGaps(numBars, gapRatio) == R(numBars)

\* Line 165: each bar is 1 unit, each gap gapRatio units.
TotalUnits(numBars, gapRatio) ==
    RAdd(R(numBars), RMul(R(numBars - 1), gapRatio))

\* Line 166: capped at twice the setting.
DynamicBarWidth(availableWidth, totalUnits, barWidth) ==
    RMin(RDiv(R(availableWidth), totalUnits), R(barWidth * 2))

\* Line 167
DynamicBarGap(dynamicBarWidth, gapRatio) == RMul(dynamicBarWidth, gapRatio)

\* A variant of ComputeX that hands the bars back in the opposite order.
RECURSIVE ComputeXReversing(_, _, _, _)
ComputeXReversing(list, k, currentX, stride) ==
    IF k > Len(list) THEN [i \in 1..Len(list) |-> list[Len(list) + 1 - i]]
    ELSE ComputeXReversing([list EXCEPT ![k].xPosition = currentX],
                           k + 1, RAdd(currentX, stride), stride)

\* Lines 170-174: the x positions of the bars from bar k on.
RECURSIVE ComputeX(_, _, _, _)
ComputeX(list, k, currentX, stride) ==
    IF k > Len(list) THEN list
    ELSE ComputeX([list EXCEPT ![k].xPosition = currentX],
                  k + 1, RAdd(currentX, stride), stride)

\* A variant of StepBar that does not advance the running total.
StepBarNotAdvancing(bar, runningTotal) ==
    [bar |-> [bar EXCEPT !.startY = runningTotal,
                         !.endY = runningTotal + bar.totalValue],
     runningTotal |-> runningTotal]

\* Lines 185-189: a step bar spans from the running total and advances it.
StepBar(bar, runningTotal) ==
    [bar |-> [bar EXCEPT !.startY = runningTotal,
                         !.endY = runningTotal + bar.totalValue],
     runningTotal |-> runningTotal + bar.totalValue]

\* A variant of SnapshotBar that restarts the running total at 0.
SnapshotBarResetting(bar, runningTotal) ==
    [bar |-> [bar EXCEPT !.startY = 0, !.endY = runningTotal],
     runningTotal |-> 0]

\* Lines 190-197: a subtotal or total bar shows the running total.
SnapshotBar(bar, runningTotal) ==
    [bar |-> [bar EXCEPT !.startY = 0, !.endY = runningTotal],
     runningTotal |-> runningTotal]

\* A variant of NormalBar that stacks the bar on the running total.
NormalBarCumulative(bar, runningTotal) ==
    [bar |-> [bar EXCEPT !.startY = runningTotal,
                         !.endY = runningTotal + bar.totalValue],
     runningTotal |-> runningTotal + bar.totalValue]

\* Lines 198-202: a bar of type bar starts from 0.
NormalBar(bar, runningTotal) ==
    [bar |-> [bar EXCEPT !.startY = 0, !.endY = bar.totalValue],
     runningTotal |-> runningTotal]

\* Lines 185-202: one turn of the loop.
PositionBar(bar, runningTotal) ==
    IF bar.barType = "step" THEN StepBar(bar, runningTotal)
    ELSE IF bar.barType = "subtotal" THEN SnapshotBar(bar, runningTotal)
    ELSE IF bar.barType = "total" THEN SnapshotBar(bar, runningTotal)
    ELSE IF bar.barType = "bar" THEN NormalBar(bar, runningTotal)
    ELSE [bar |-> bar, runningTotal |-> runningTotal]

\* Lines 181-203: the y spans of the bars from bar k on.
RECURSIVE ComputeY(_, _, _)
ComputeY(list, k, runningTotal) ==
    IF k > Len(list) THEN list
    ELSE LET p == PositionBar(list[k], runningTotal)
         IN  ComputeY([list EXCEPT ![k] = p.bar], k + 1, p.runningTotal)

\* Lines 154-204: the bars and the two stored values after the call.
computeBarPositions(list, settings, viewportWidth) ==
    LET chartSettings == settings.chartSettings
        availableWidth == viewportWidth - MarginLeft - MarginRight
        numBars == Len(list)
        gapRatio == GapRatio(chartSettings)
        totalUnits == TotalUnits(numBars, gapRatio)
        dynamicBarWidth ==
            DynamicBarWidth(availableWidth, totalUnits, chartSettings.barWidth)
        dynamicBarGap == DynamicBarGap(dynamicBarWidth, gapRatio)
        placed == ComputeX(list, 1, R(MarginLeft),
                           RAdd(dynamicBarWidth, dynamicBarGap))
    IN  [bars |-> ComputeY(placed, 1, 0),
         computedBarWidth |-> dynamicBarWidth,
         computedBarGap |-> dynamicBarGap]

-----------------------------------------------------------------------------
(* computeBarPositions called on its own, on the bars parseData returned   *)

BarTypeTags == {"step", "subtotal", "total", "bar"}

\* The measure cells of a row: one measure alone, or two of opposite sign.
RowMeasures == {<<Num(3), Num(0)>>, <<Num(-2), Num(1)>>}

ChartRows ==
    {[i \in 1..Len(q) |->
        Row(Str(Char(CategoryNames, i)), Str(q[i][1]), Null, q[i][2])] :
     q \in SeqsUpTo(BarTypeTags \X RowMeasures, MaxRows)}

ViewportHeight == 300

\* Bar width and gap settings within the validators of settings.ts, each
\* with a viewport width: <<barWidth, barGap, width>>.  At width 70 nothing
\* is left of the margins; below it the available width is negative.
LayoutCases ==
    {<<40, 10, 300>>, <<40, 10, 1200>>, <<15, 50, 0>>, <<15, 50, 300>>,
     <<100, 2, 70>>, <<100, 2, 1200>>}

InitLayout ==
    /\ \E c \in LayoutCases :
          /\ formattingSettings =
                WithChart(VisualFormattingSettingsModel, c[1], c[2], TRUE, TRUE)
          /\ \E rows \in ChartRows :
                bars = parseData(DataViewOf(rows, 2, MeasureNames, formattingSettings),
                                 formattingSettings)
          /\ arg = [viewportWidth |-> c[3], viewportHeight |-> ViewportHeight,
                    bars |-> bars]
    /\ svg = EmptySvg
    /\ computedBarWidth = Undefined
    /\ computedBarGap = Undefined
    /\ options = NoCall
    /\ pc = "call"
    /\ ret = Undefined

\* this.computeBarPositions(viewportWidth, viewportHeight); arg.bars keeps
\* the bars as they were before the call.
CallComputeBarPositions ==
    /\ pc = "call"
    /\ pc' = "return"
    /\ \E r \in {computeBarPositions(bars, formattingSettings, arg.viewportWidth)} :
          /\ bars' = r.bars
          /\ computedBarWidth' = r.computedBarWidth
          /\ computedBarGap' = r.computedBarGap
    /\ UNCHANGED <<formattingSettings, svg, options, arg, ret>>

NextLayout == CallComputeBarPositions

SpecLayout == InitLayout /\ [][NextLayout]_vars

-----------------------------------------------------------------------------
(* Claims about computeBarPositions *)

\* The sum of totalValue over the first i bars of a list.
RECURSIVE PrefixSum(_, _)
PrefixSum(list, i) ==
    IF i = 0 THEN 0 ELSE PrefixSum(list, i - 1) + list[i].totalValue

\* The sum of totalValue over the step bars among the first i bars.
RECURSIVE StepSum(_, _)
StepSum(list, i) ==
    IF i = 0 THEN 0
    ELSE StepSum(list, i - 1)
         + (IF list[i].barType = "step" THEN list[i].totalValue ELSE 0)

\* The list without its k-th bar.
Without(list, k) == SubSeq(list, 1, k - 1) \o SubSeq(list, k + 1, Len(list))

\* The bars the call would have positioned had bar k not been in the list.
PositionedWithout(k) ==
    computeBarPositions(Without(arg.bars, k), formattingSettings,
                        arg.viewportWidth).bars

SameSpan(a, b) == a.startY = b.startY /\ a.endY = b.endY

\* C2: when every bar is a step bar with values v1..vn, bar i starts at
\* v1 + ... + v(i-1) (0 for the first bar) and ends at v1 + ... + vi.
C2_StepBarsSpanPrefixSums ==
    (pc = "return" /\ \A k \in 1..Len(bars) : bars[k].barType = "step") =>
        \A i \in 1..Len(bars) :
            /\ bars[i].startY = PrefixSum(arg.bars, i - 1)
            /\ bars[i].endY = PrefixSum(arg.bars, i)

\* Three step bars of values 3, -1, 3: the last spans 2..5.
C2_Witness ==
    /\ pc = "return"
    /\ Len(bars) = 3
    /\ \A k \in 1..3 : bars[k].barType = "step"
    /\ arg.bars[1].totalValue = 3 /\ arg.bars[2].totalValue = -1
    /\ bars[3].startY = 2 /\ bars[3].endY = 5

\* C3: a subtotal or total bar spans from 0 to the sum of the step bars
\* before it, and the spans of the bars after it are those they would have
\* had without it.
C3_SnapshotBarsLeaveRunningTotal ==
    pc = "return" =>
        \A k \in 1..Len(bars) :
            bars[k].barType \in {"subtotal", "total"} =>
                /\ bars[k].startY = 0
                /\ bars[k].endY = StepSum(arg.bars, k - 1)
                /\ \A l \in (k + 1)..Len(bars) :
                      SameSpan(bars[l], PositionedWithout(k)[l - 1])

\* step 3, total, step -1: the total shows 3 and the last step spans 3..2.
C3_Witness ==
    /\ pc = "return"
    /\ Len(bars) = 3
    /\ bars[1].barType = "step" /\ bars[1].totalValue = 3
    /\ bars[2].barType = "total" /\ bars[2].totalValue = -1
    /\ bars[2].startY = 0 /\ bars[2].endY = 3
    /\ bars[3].barType = "step" /\ bars[3].startY = 3 /\ bars[3].endY = 2

\* C4: a bar of type bar spans from 0 to its own totalValue whatever the
\* running total, and the spans of the step, subtotal and total bars after
\* it are those they would have had without it.
C4_NormalBarsAreIndependent ==
    pc = "return" =>
        \A k \in 1..Len(bars) :
            bars[k].barType = "bar" =>
                /\ bars[k].startY = 0
                /\ bars[k].endY = arg.bars[k].totalValue
                /\ \A l \in (k + 1)..Len(bars) :
                      bars[l].barType \in {"step", "subtotal", "total"} =>
                          SameSpan(bars[l], PositionedWithout(k)[l - 1])

\* step 3, bar -1, subtotal: the bar spans 0..-1 at running total 3, which
\* the subtotal after it still shows.
C4_Witness ==
    /\ pc = "return"
    /\ Len(bars) = 3
    /\ bars[1].barType = "step" /\ bars[1].endY = 3
    /\ bars[2].barType = "bar" /\ bars[2].startY = 0 /\ bars[2].endY = -1
    /\ bars[3].barType = "subtotal" /\ bars[3].endY = 3

\* C5: with N bars, settings W and G and available width A (viewport width
\* less 50 and 20), the stored width w and gap g satisfy g = w * (G / W),
\* N * w + (N - 1) * g <= A and w <= 2 * W, and bar i (from 0) is placed at
\* x = 50 + i * (w + g).
C5_HorizontalPacking ==
    pc = "return" =>
        LET N == Len(bars)
            W == formattingSettings.chartSettings.barWidth
            G == formattingSettings.chartSettings.barGap
            A == arg.viewportWidth - 50 - 20
            w == computedBarWidth
            g == computedBarGap
        IN  /\ g = RMul(w, Rat(G, W))
            /\ RLe(RAdd(RMul(R(N), w), RMul(R(N - 1), g)), R(A))
            /\ RLe(w, R(2 * W))
            /\ \A i \in 0..(N - 1) :
                  bars[i + 1].xPosition = RAdd(R(50), RMul(R(i), RAdd(w, g)))

\* Three bars shrunk to fill 230 pixels exactly: w = 460/7 < 2 * 40.
C5_Witness ==
    /\ pc = "return"
    /\ Len(bars) = 3
    /\ arg.viewportWidth = 300
    /\ formattingSettings.chartSettings.barWidth = 40
    /\ RLt(computedBarWidth, R(80))
    /\ RAdd(RMul(R(3), computedBarWidth), RMul(R(2), computedBarGap)) = R(230)
    /\ bars[3].xPosition = RAdd(R(50), RMul(R(2), RAdd(computedBarWidth, computedBarGap)))

-----------------------------------------------------------------------------
(* Visual.formatValue.  The value is a rational [n, d].  toFixed rounds    *)
(* the exact quotient, half away from zero; the code rounds the double     *)
(* nearest the quotient, which can differ only where the exact quotient    *)
(* lies halfway between two results and is not itself a double.            *)

RECURSIVE Pow10(_)
Pow10(k) == IF k = 0 THEN 1 ELSE 10 * Pow10(k - 1)

\* The digits of a natural number, padded with zeros on the left to width.
RECURSIVE Padded(_, _)
Padded(k, width) ==
    IF width = 0 THEN ""
    ELSE Padded(k \div 10, width - 1) \o Char(Digits, (k % 10) + 1)

\* t / 10^digits written with that many decimals: Number.prototype.toFixed
\* once the value is rounded to the integer t of its last decimal.
FixedText(t, digits) ==
    IF digits = 0 THEN NatToString(t)
    ELSE NatToString(t \div Pow10(digits)) \o "."
         \o Padded(t % Pow10(digits), digits)

\* (abs / 10^k).toFixed(digits) for abs = n/d >= 0 and k >= digits.
ScaledToFixed(abs, k, digits) ==
    LET unit == abs.d * Pow10(k - digits)
    IN  FixedText((2 * abs.n + unit) \div (2 * unit), digits)

\* (abs / 10^k).toFixed(digits) for k > digits, without doubling abs.n.
LargeToFixed(abs, k, digits) ==
    LET unit == abs.d * Pow10(k - digits)
    IN  FixedText((abs.n + unit \div 2) \div unit, digits)

\* abs.toFixed(2) for abs = n/d >= 0.
ToFixed2(abs) == FixedText((2 * abs.n * 100 + abs.d) \div (2 * abs.d), 2)

\* The number of characters s.replace(/\.?0+$/, "") removes from the end of
\* s: the trailing zeros, and the point before them.
RECURSIVE TrailingZeros(_)
TrailingZeros(s) ==
    IF Len(s) > 0 /\ Char(s, Len(s)) = "0"
    THEN 1 + TrailingZeros(SubSeq(s, 1, Len(s) - 1))
    ELSE 0

\* Line 467: s.replace(/\.?0+$/, "")
StripZeros(s) ==
    LET z == TrailingZeros(s)
        rest == SubSeq(s, 1, Len(s) - z)
    IN  IF z > 0 /\ Len(rest) > 0 /\ Char(rest, Len(rest)) = "."
        THEN SubSeq(rest, 1, Len(rest) - 1)
        ELSE rest

\* A variant of ScaledText that always prints two decimals.
ScaledTextTwoDecimals(abs, k) == ScaledToFixed(abs, k, 2)

\* Lines 461-462 and 464-465: formatted % 1 === 0 ? toFixed(0) : toFixed(2)
ScaledText(abs, k) ==
    IF abs.n % (abs.d * Pow10(k)) = 0
    THEN ScaledToFixed(abs, k, 0)
    ELSE ScaledToFixed(abs, k, 2)

\* Lines 451-468.  The value is never null or undefined where the code
\* calls formatValue.
formatValue(value) ==
    IF value.n = 0 THEN "0"
    ELSE LET abs == RAbs(value)
             whole == abs.n \div abs.d
             sign == IF value.n < 0 THEN "-" ELSE ""
         IN  IF whole >= 1000000000 THEN sign \o LargeToFixed(abs, 9, 1) \o "B"
             ELSE IF whole >= 1000000 THEN sign \o ScaledText(abs, 6) \o "M"
             ELSE IF whole >= 1000 THEN sign \o ScaledText(abs, 3) \o "K"
             ELSE StripZeros(sign \o ToFixed2(abs))

-----------------------------------------------------------------------------
(* formatValue called on its own *)

MaxSmall == 150

\* Integers below 1000 in magnitude, eighths, and values of the K, M and B
\* ranges whose scaled quotient is no tie of toFixed unless it is a double.
FormatValues ==
    {R(i) : i \in -MaxSmall..MaxSmall}
    \cup {Rat(i, 8) : i \in -MaxSmall..MaxSmall}
    \cup {R(i) : i \in {950, -950, 999, -999, 1000, -1000, 1500, -1500, 1234,
                        12000, 999999, 1000000, 2000000, -2000000, 2500000,
                        1234567, 999999999, 1000000000, 1234567890,
                        -1234567890, 1960000000, 2000000000}}
    \cup {Rat(7999, 8), Rat(-7999, 8), Rat(999999, 1000), Rat(12001, 8)}

InitFormat ==
    /\ Constructed
    /\ pc = "call"
    /\ arg \in FormatValues
    /\ ret = Undefined

CallFormatValue ==
    /\ pc = "call"
    /\ pc' = "return"
    /\ ret' = formatValue(arg)
    /\ UNCHANGED <<formattingSettings, bars, svg, computedBarWidth,
                   computedBarGap, options, arg>>

NextFormat == CallFormatValue

SpecFormat == InitFormat /\ [][NextFormat]_vars

-----------------------------------------------------------------------------
(* Claims about formatValue *)

EndsWith(s, suffix) ==
    Len(s) >= Len(suffix) /\ SubSeq(s, Len(s) - Len(suffix) + 1, Len(s)) = suffix

StartsWith(s, prefix) == Len(s) >= Len(prefix) /\ SubSeq(s, 1, Len(prefix)) = prefix

\* The number of characters after the decimal point of s; 0 without one.
DecimalsOf(s) ==
    IF \E i \in 1..Len(s) : Char(s, i) = "."
    THEN Len(s) - (CHOOSE i \in 1..Len(s) : Char(s, i) = ".")
    ELSE 0

HasPoint(s) == \E i \in 1..Len(s) : Char(s, i) = "."

\* s without a leading "-" and without its last suffixLen characters.
Magnitude(s, suffixLen) ==
    SubSeq(s, IF StartsWith(s, "-") THEN 2 ELSE 1, Len(s) - suffixLen)

\* The text of a value of the K or M range: the scaled magnitude as an
\* integer when exact, otherwise with two decimals, then the suffix.
ScaledAsStated(value, text, scale, suffix) ==
    LET a == RAbs(value)
        exact == a.n % (a.d * scale) = 0
    IN  /\ EndsWith(text, suffix)
        /\ exact => Magnitude(text, 1) = NatToString(a.n \div (a.d * scale))
        /\ ~exact => DecimalsOf(Magnitude(text, 1)) = 2

FormattedAsStated(value, text) ==
    LET whole == Abs(value.n) \div value.d
    IN  /\ value.n = 0 => text = "0"
        /\ StartsWith(text, "-") <=> value.n < 0
        /\ whole >= 1000000000 =>
              EndsWith(text, "B") /\ DecimalsOf(Magnitude(text, 1)) = 1
        /\ (whole >= 1000000 /\ whole < 1000000000) =>
              ScaledAsStated(value, text, 1000000, "M")
        /\ (whole >= 1000 /\ whole < 1000000) =>
              ScaledAsStated(value, text, 1000, "K")
        /\ whole < 1000 =>
              /\ ~EndsWith(text, "K") /\ ~EndsWith(text, "M") /\ ~EndsWith(text, "B")
              /\ ~EndsWith(text, ".")
              /\ HasPoint(text) => ~EndsWith(text, "0")
              /\ DecimalsOf(text) <= 2

\* C6 (as claimed): 0 -> "0", 1500 -> "1.5K", 2000000 -> "2M", -950 -> "-950",
\* 1234567890 -> "1.2B".
C6_ExamplesAsClaimed ==
    pc = "return" =>
        /\ arg = R(0) => ret = "0"
        /\ arg = R(1500) => ret = "1.5K"
        /\ arg = R(2000000) => ret = "2M"
        /\ arg = R(-950) => ret = "-950"
        /\ arg = R(1234567890) => ret = "1.2B"

\* C6 (amended): 0 -> "0", 1500 -> "1.50K", 2000000 -> "2M", -950 -> "-950",
\* 1234567890 -> "1.2B"; the K and M ranges print the scaled magnitude as an
\* integer when exact and otherwise with two decimals, the B range with one
\* decimal, values below 1000 with at most two decimals and no trailing zero
\* or point; a negative value keeps its sign.
C6_FormatValue ==
    pc = "return" =>
        /\ arg = R(0) => ret = "0"
        /\ arg = R(1500) => ret = "1.50K"
        /\ arg = R(2000000) => ret = "2M"
        /\ arg = R(-950) => ret = "-950"
        /\ arg = R(1234567890) => ret = "1.2B"
        /\ FormattedAsStated(arg, ret)

C6_Witness == pc = "return" /\ arg = R(1500) /\ ret = "1.50K"

-----------------------------------------------------------------------------
(* Visual.renderChart and Visual.renderEmptyState.  The children of the    *)
(* svg element are records named after their tag, with the attributes the  *)
(* code sets; a rect's title is "" when it has no tooltip.                 *)

MarginTop == 30

MarginBottom == 60

\* Lines 210-212 and 471-473: every child is removed.
RemoveChildren(children) == <<>>

\* Lines 222-223: stored || setting; 0 and undefined are falsy.
StoredOr(stored, setting) ==
    IF stored = Undefined \/ stored.n = 0 THEN R(setting) ELSE stored

\* Lines 228-232
RECURSIVE MaxValue(_, _)
MaxValue(list, k) ==
    IF k = 0 THEN 0
    ELSE LET m == MaxValue(list, k - 1)
             a == Abs(list[k].endY)
             b == Abs(list[k].startY)
         IN  IF m >= a /\ m >= b THEN m ELSE IF a >= b THEN a ELSE b

\* Lines 234-236: value is a rational.
yScale(value, maxValue, chartHeight) ==
    RSub(R(MarginTop + chartHeight),
         RMul(RDiv(value, R(maxValue)), R(chartHeight)))

\* Lines 241-259
PatternDefs ==
    [tag |-> "defs",
     pattern |-> [id |-> "dots-pattern", width |-> 6, height |-> 6,
                  dot |-> [cx |-> 3, cy |-> 3, fill |-> "#333"]]]

\* Lines 262-269
Baseline(width, y0) ==
    [tag |-> "line", x1 |-> R(MarginLeft - 10), x2 |-> R(width - MarginRight),
     y1 |-> y0, y2 |-> y0, stroke |-> "#CCC", strokeWidth |-> 1,
     dasharray |-> ""]

\* Lines 273-278: the index (1-based) of the first bar of type bar that
\* follows a bar of another type; 0 when there is none.
SeparatorIndex(list) ==
    LET found == {i \in 2..Len(list) :
                     list[i].barType = "bar" /\ list[i - 1].barType # "bar"}
    IN  IF found = {} THEN 0
        ELSE CHOOSE i \in found : \A j \in found : i <= j

\* Lines 272-278: -1 when no such bar is found.
SeparatorX(list, barGap) ==
    IF SeparatorIndex(list) = 0 THEN R(-1)
    ELSE RSub(list[SeparatorIndex(list)].xPosition, RDiv(barGap, R(2)))

\* Lines 281-291
Separator(separatorX, height, colorSettings) ==
    IF RLt(R(0), separatorX)
    THEN <<[tag |-> "line", x1 |-> separatorX, x2 |-> separatorX,
            y1 |-> R(MarginTop), y2 |-> R(height - MarginBottom),
            stroke |-> colorSettings.separatorColor, strokeWidth |-> 2,
            dasharray |-> "6,4"]>>
    ELSE <<>>

\* Lines 295-311: the connectors from bar i on.
RECURSIVE Connectors(_, _, _, _, _, _)
Connectors(list, i, barWidth, maxValue, chartHeight, colorSettings) ==
    IF i > Len(list) - 1 THEN <<>>
    ELSE LET current == list[i]
             next == list[i + 1]
             y == yScale(R(current.endY), maxValue, chartHeight)
         IN  (IF current.barType = "step" /\ next.barType = "step"
              THEN <<[tag |-> "line",
                      x1 |-> RAdd(current.xPosition, barWidth),
                      x2 |-> next.xPosition, y1 |-> y, y2 |-> y,
                      stroke |-> colorSettings.connectorColor,
                      strokeWidth |-> 1, dasharray |-> "3,2"]>>
              ELSE <<>>)
             \o Connectors(list, i + 1, barWidth, maxValue, chartHeight,
                           colorSettings)

\* Lines 324-333
FillColor(bar, colorSettings) ==
    IF bar.barType = "subtotal" THEN colorSettings.subtotalColor
    ELSE IF bar.barType = "total" THEN colorSettings.totalColor
    ELSE colorSettings.defaultBarColor

UsePattern(bar, colorSettings) ==
    IF bar.barType = "subtotal" THEN colorSettings.usePatternForSubtotal
    ELSE IF bar.barType = "total" THEN colorSettings.usePatternForTotal
    ELSE FALSE

\* Lines 338-360: the rects of the stacked values from entry e on.
RECURSIVE StackedRects(_, _, _, _, _, _)
StackedRects(bar, e, currentStackY, barWidth, maxValue, chartHeight) ==
    IF e > Len(bar.stackedValues) THEN <<>>
    ELSE LET stack == bar.stackedValues[e]
             stackTopY == yScale(R(currentStackY + stack.value), maxValue, chartHeight)
             stackBottomY == yScale(R(currentStackY), maxValue, chartHeight)
             stackHeight == RAbs(RSub(stackBottomY, stackTopY))
         IN  <<[tag |-> "rect", x |-> bar.xPosition,
                y |-> RMin(stackTopY, stackBottomY), width |-> barWidth,
                height |-> RMax(stackHeight, R(1)), fill |-> stack.color,
                stroke |-> "#fff",
                title |-> bar.category \o "\n" \o stack.measureName \o ": "
                          \o formatValue(R(stack.value))]>>
             \o StackedRects(bar, e + 1, currentStackY + stack.value, barWidth,
                             maxValue, chartHeight)

\* Lines 363-387: the single rect, and the pattern rect over it.
SingleRects(bar, barTopY, barBottomY, barWidth, fillColor, usePattern) ==
    LET barHeight == RAbs(RSub(barBottomY, barTopY))
        rect == [tag |-> "rect", x |-> bar.xPosition,
                 y |-> RMin(barTopY, barBottomY), width |-> barWidth,
                 height |-> RMax(barHeight, R(1)), fill |-> fillColor,
                 stroke |-> "",
                 title |-> bar.category \o ": " \o formatValue(R(bar.totalValue))]
        patternRect == [rect EXCEPT !.fill = "url(#dots-pattern)", !.title = ""]
    IN  IF usePattern THEN <<rect, patternRect>> ELSE <<rect>>

\* Lines 392-400
ValueLabel(bar, barTopY, barWidth, chartSettings) ==
    [tag |-> "text", x |-> RAdd(bar.xPosition, RDiv(barWidth, R(2))),
     y |-> RSub(barTopY, R(5)), anchor |-> "middle",
     fontSize |-> chartSettings.valueFontSize, fill |-> "#333",
     transform |-> "", text |-> formatValue(R(bar.totalValue))]

\* Lines 404-417: the labels of the stacked values from entry e on.
RECURSIVE StackLabels(_, _, _, _, _, _, _)
StackLabels(bar, e, stackY, barWidth, maxValue, chartHeight, chartSettings) ==
    IF e > Len(bar.stackedValues) THEN <<>>
    ELSE LET stack == bar.stackedValues[e]
             stackMidY == yScale(RAdd(R(stackY), Rat(stack.value, 2)),
                                 maxValue, chartHeight)
         IN  <<[tag |-> "text",
                x |-> RAdd(bar.xPosition, RDiv(barWidth, R(2))),
                y |-> RAdd(stackMidY, R(4)), anchor |-> "middle",
                fontSize |-> chartSettings.valueFontSize - 1, fill |-> "#fff",
                transform |-> "", text |-> formatValue(R(stack.value))]>>
             \o StackLabels(bar, e + 1, stackY + stack.value, barWidth, maxValue,
                            chartHeight, chartSettings)

\* A variant of GroupChildren that appends the labels before the rects.
GroupChildrenLabelsFirst(rects, labels) == labels \o rects

\* Lines 358-415: within the turn of one bar the rects are appended to the
\* group before the labels.
GroupChildren(rects, labels) == rects \o labels

\* Lines 315-422: the group of one bar.
BarGroup(bar, barWidth, maxValue, chartHeight, settings) ==
    LET chartSettings == settings.chartSettings
        colorSettings == settings.colorSettings
        barTopY == yScale(R(bar.endY), maxValue, chartHeight)
        barBottomY == yScale(R(bar.startY), maxValue, chartHeight)
        barHeight == RAbs(RSub(barBottomY, barTopY))
        fillColor == FillColor(bar, colorSettings)
        usePattern == UsePattern(bar, colorSettings)
        rects ==
            IF Len(bar.stackedValues) > 1 /\ ~usePattern
            THEN StackedRects(bar, 1, bar.startY, barWidth, maxValue, chartHeight)
            ELSE SingleRects(bar, barTopY, barBottomY, barWidth, fillColor,
                             usePattern)
        labels ==
            IF chartSettings.showValues
            THEN <<ValueLabel(bar, barTopY, barWidth, chartSettings)>>
                 \o (IF Len(bar.stackedValues) > 1 /\ RLt(R(30), barHeight)
                     THEN StackLabels(bar, 1, bar.startY, barWidth, maxValue,
                                      chartHeight, chartSettings)
                     ELSE <<>>)
            ELSE <<>>
    IN  [tag |-> "g", class |-> "bar-group bar-type-" \o bar.barType,
         children |-> GroupChildren(rects, labels)]

\* Lines 427-447: the axis label of one bar.
AxisLabel(bar, barWidth, height, axisSettings) ==
    [tag |-> "text", x |-> RAdd(bar.xPosition, RDiv(barWidth, R(2))),
     y |-> R(height - MarginBottom + 15),
     anchor |-> IF axisSettings.labelRotation > 0 THEN "start" ELSE "middle",
     fontSize |-> axisSettings.xAxisFontSize, fill |-> axisSettings.xAxisColor,
     \* rotate(rotation, labelX, labelY): about the label's own x and y
     transform |-> IF axisSettings.labelRotation > 0
                   THEN "rotate(" \o IntToString(axisSettings.labelRotation) \o ")"
                   ELSE "",
     text |-> bar.category]

\* Lines 240-448: what renderChart appends, in order.
ChartChildren(list, storedWidth, storedGap, settings, width, height) ==
    LET chartSettings == settings.chartSettings
        barWidth == StoredOr(storedWidth, chartSettings.barWidth)
        barGap == StoredOr(storedGap, chartSettings.barGap)
        chartHeight == height - MarginTop - MarginBottom
        found == MaxValue(list, Len(list))
        maxValue == IF found = 0 THEN 1 ELSE found
    IN  <<PatternDefs, Baseline(width, yScale(R(0), maxValue, chartHeight))>>
        \o Separator(SeparatorX(list, barGap), height, settings.colorSettings)
        \o (IF chartSettings.showConnectors
            THEN Connectors(list, 1, barWidth, maxValue, chartHeight,
                            settings.colorSettings)
            ELSE <<>>)
        \o [k \in 1..Len(list) |->
               BarGroup(list[k], barWidth, maxValue, chartHeight, settings)]
        \o (IF settings.axisSettings.showXAxis
            THEN [k \in 1..Len(list) |->
                     AxisLabel(list[k], barWidth, height, settings.axisSettings)]
            ELSE <<>>)

\* A variant of renderChart that does not remove the previous children.
renderChartOverPrevious(element, list, storedWidth, storedGap, settings, width, height) ==
    [width |-> R(width), height |-> R(height),
     children |-> element.children
                  \o ChartChildren(list, storedWidth, storedGap, settings,
                                   width, height)]

\* Lines 208-449: the svg element after renderChart.
renderChart(element, list, storedWidth, storedGap, settings, width, height) ==
    [width |-> R(width), height |-> R(height),
     children |-> RemoveChildren(element.children)
                  \o ChartChildren(list, storedWidth, storedGap, settings,
                                   width, height)]

\* Lines 478-487
Placeholder(width, height) ==
    [tag |-> "text", x |-> Rat(width, 2), y |-> Rat(height, 2),
     anchor |-> "middle", fontSize |-> 14, fill |-> "#666", transform |-> "",
     text |-> "Add Category, Bar Type and Values to display the chart"]

\* A variant of renderEmptyState that does not remove the previous children.
renderEmptyStateOverPrevious(element, width, height) ==
    [width |-> R(width), height |-> R(height),
     children |-> Append(element.children, Placeholder(width, height))]

\* Lines 470-488: the svg element after renderEmptyState.
renderEmptyState(element, width, height) ==
    [width |-> R(width), height |-> R(height),
     children |-> Append(RemoveChildren(element.children),
                         Placeholder(width, height))]

-----------------------------------------------------------------------------
(* Visual.update *)

\* The fields of the visual.
Visual ==
    [formattingSettings |-> formattingSettings, bars |-> bars, svg |-> svg,
     computedBarWidth |-> computedBarWidth, computedBarGap |-> computedBarGap]

\* The fields after the constructor.
NewVisual ==
    [formattingSettings |-> Undefined, bars |-> <<>>, svg |-> EmptySvg,
     computedBarWidth |-> Undefined, computedBarGap |-> Undefined]

UpdateOptions(dataView, width, height) ==
    [called |-> TRUE, dataView |-> dataView,
     viewport |-> [width |-> width, height |-> height]]

\* Lines 80-84: the layout, then the drawing that reads what it stored.
LayoutAndRender(visual, width, height) ==
    LET r == computeBarPositions(visual.bars, visual.formattingSettings, width)
        positioned == [visual EXCEPT !.bars = r.bars,
                                     !.computedBarWidth = r.computedBarWidth,
                                     !.computedBarGap = r.computedBarGap]
    IN  [positioned EXCEPT !.svg =
            renderChart(positioned.svg, positioned.bars,
                        positioned.computedBarWidth, positioned.computedBarGap,
                        positioned.formattingSettings, width, height)]

\* Lines 59-85: the fields of the visual after update(o).
update(visual, o) ==
    LET dataView == o.dataView
        width == o.viewport.width
        height == o.viewport.height
        populated == [visual EXCEPT !.formattingSettings =
                         populateFormattingSettingsModel(dataView)]
    IN  IF ~dataView.defined \/ ~dataView.hasCategorical
        THEN [populated EXCEPT !.svg = renderEmptyState(populated.svg, width, height)]
        ELSE LET parsed == [populated EXCEPT !.bars =
                               parseData(dataView, populated.formattingSettings)]
             IN  IF Len(parsed.bars) = 0
                 THEN [parsed EXCEPT !.svg =
                          renderEmptyState(parsed.svg, width, height)]
                 ELSE LayoutAndRender(parsed, width, height)

\* The host calls update(o): the handler runs to its end.
UpdateStep(o) ==
    \E after \in {update(Visual, o)} :
        /\ formattingSettings' = after.formattingSettings
        /\ bars' = after.bars
        /\ svg' = after.svg
        /\ computedBarWidth' = after.computedBarWidth
        /\ computedBarGap' = after.computedBarGap
        /\ options' = o

-----------------------------------------------------------------------------
(* The visual in its host: any sequence of updates *)

MaxUpdateRows == 2

UpdateTypeTags == {"step", "subtotal", "bar"}

UpdateRows ==
    {[i \in 1..Len(q) |->
        Row(Str(Char(CategoryNames, i)), Str(q[i]), Null,
            IF i % 2 = 1 THEN <<Num(3), Num(0)>> ELSE <<Num(-2), Num(1)>>)] :
     q \in SeqsUpTo(UpdateTypeTags, MaxUpdateRows)}

UpdateSettings ==
    {VisualFormattingSettingsModel,
     WithChart(VisualFormattingSettingsModel, 15, 50, TRUE, TRUE)}

\* Data views with too little to draw: no categorical mapping, no
\* categories, one categorical column, two categorical columns of no rows.
InsufficientDataViews ==
    {NoDataView}
    \cup UNION {{NoCategorical(fs), NoCategories(fs),
                 DataViewOf(<<Row(Str("A"), Str("step"), Null, <<Num(3), Num(0)>>)>>,
                            1, MeasureNames, fs),
                 DataViewOf(<<>>, 2, MeasureNames, fs)} : fs \in UpdateSettings}

UpdateDataViews ==
    InsufficientDataViews
    \cup {DataViewOf(rows, 2, MeasureNames, fs) :
            rows \in UpdateRows, fs \in UpdateSettings}

UpdateWidths == {70, 300}

Init ==
    /\ Constructed
    /\ pc = "idle"
    /\ arg = Undefined
    /\ ret = Undefined

Update ==
    /\ pc = "idle"
    /\ \E dataView \in UpdateDataViews, width \in UpdateWidths :
          UpdateStep(UpdateOptions(dataView, width, ViewportHeight))
    /\ UNCHANGED <<pc, arg, ret>>

Next == Update

Spec == Init /\ [][Next]_vars

-----------------------------------------------------------------------------
(* One update of a newly constructed visual *)

\* <<barWidth, barGap, showValues, showConnectors, patterns, showXAxis,
\*   labelRotation, width>>
RenderCases ==
    {<<40, 10, TRUE, TRUE, TRUE, TRUE, 0, 300>>,
     <<40, 10, TRUE, TRUE, FALSE, TRUE, 45, 1200>>,
     <<40, 10, FALSE, FALSE, TRUE, FALSE, 0, 300>>,
     <<40, 10, TRUE, TRUE, TRUE, TRUE, 0, 70>>,
     <<15, 50, TRUE, TRUE, TRUE, TRUE, 0, 0>>,
     <<100, 2, TRUE, TRUE, FALSE, TRUE, 0, 300>>}

RenderSettings(c) ==
    WithAxis(WithPatterns(WithChart(VisualFormattingSettingsModel,
                                    c[1], c[2], c[3], c[4]),
                          c[5], c[5]),
             c[6], c[7])

RenderOptions ==
    {UpdateOptions(DataViewOf(rows, 2, MeasureNames, RenderSettings(c)),
                   c[8], ViewportHeight) :
        rows \in ChartRows, c \in RenderCases}

InitRender ==
    /\ Constructed
    /\ pc = "call"
    /\ arg \in RenderOptions
    /\ ret = Undefined

CallUpdate ==
    /\ pc = "call"
    /\ pc' = "return"
    /\ UpdateStep(arg)
    /\ UNCHANGED <<arg, ret>>

NextRender == CallUpdate

SpecRender == InitRender /\ [][NextRender]_vars

-----------------------------------------------------------------------------
(* Claims about update *)

\* No data view, no categorical data, fewer than two categorical columns,
\* or no rows.
Insufficient(dataView) ==
    \/ ~dataView.defined
    \/ ~dataView.hasCategorical
    \/ ~dataView.hasCategories
    \/ Len(dataView.categories) < 2
    \/ Len(dataView.categories[1].values) = 0

OnlyPlaceholder(element) ==
    /\ Len(element.children) = 1
    /\ element.children[1].tag = "text"
    /\ element.children[1].text =
          "Add Category, Bar Type and Values to display the chart"

\* C8: an update with no data view, no categorical data, fewer than two
\* categorical columns or no rows runs neither the layout (the stored bar
\* width and gap and the positions of the bars are left alone) nor the
\* chart drawing, and leaves only the placeholder text in the svg element,
\* whatever the updates before it.
C8_InsufficientInputShowsPlaceholder ==
    [][(options'.called /\ Insufficient(options'.dataView)) =>
          /\ OnlyPlaceholder(svg')
          /\ computedBarWidth' = computedBarWidth
          /\ computedBarGap' = computedBarGap
          /\ bars' = bars \/ bars' = <<>>]_vars

\* An update without a data view after one that drew two bars: the bars are
\* still in the visual, the svg element holds the placeholder alone.
C8_Witness ==
    /\ options.called
    /\ ~options.dataView.defined
    /\ Len(bars) = 2
    /\ computedBarWidth # Undefined
    /\ OnlyPlaceholder(svg)

\* C9: after any sequence of updates the svg element is what the last
\* update alone produces on a newly constructed visual.
C9_LastUpdateDecidesOutput ==
    options.called => svg = update(NewVisual, options).svg

\* A chart drawn by an update that followed others: the visual still holds
\* the bar width of an earlier chart after an update of no rows, or a chart
\* of two bars is shown; here the former.
C9_Witness ==
    /\ options.called
    /\ options.dataView.defined
    /\ options.dataView.hasCategories
    /\ Len(options.dataView.categories) = 2
    /\ bars = <<>>
    /\ computedBarWidth # Undefined
    /\ svg = update(NewVisual, options).svg

\* The separators among the children of the svg element.
Separators(element) ==
    {k \in 1..Len(element.children) :
        /\ element.children[k].tag = "line"
        /\ element.children[k].dasharray = "6,4"}

\* A bar of type bar that immediately follows a bar of another type.
Transitions(list) ==
    {i \in 2..Len(list) : list[i].barType = "bar" /\ list[i - 1].barType # "bar"}

DrewChart == pc = "return" /\ Len(bars) > 0

\* At most one separator is drawn, one exactly when there is a transition,
\* and then half a gap to the left of the first bar of a transition.
OneSeparatorAtFirstTransition ==
    /\ Cardinality(Separators(svg)) = (IF Transitions(bars) = {} THEN 0 ELSE 1)
    /\ \A k \in Separators(svg) :
          \E i \in Transitions(bars) :
              /\ \A j \in Transitions(bars) : i <= j
              /\ svg.children[k].x1 =
                    RSub(bars[i].xPosition,
                         RDiv(StoredOr(computedBarGap,
                                       formattingSettings.chartSettings.barGap),
                              R(2)))

\* C10 (as claimed): renderChart draws a separator if and only if a bar of
\* type bar immediately follows a bar of another type; then it draws exactly
\* one, half a gap to the left of the first such bar, for every viewport
\* size and configuration.
C10_SeparatorIffTransition == DrewChart => OneSeparatorAtFirstTransition

\* What does hold: the same for the viewports at least as wide as the two
\* margins, where no bar is placed left of the left margin.
SeparatorWhenRoomForMargins ==
    (DrewChart /\ options.viewport.width >= MarginLeft + MarginRight) =>
        OneSeparatorAtFirstTransition

-----------------------------------------------------------------------------
(* Claims about renderChart *)

\* What a child of the svg element is, from its tag and its dashes.
KindOf(child) ==
    IF child.tag = "defs" THEN "defs"
    ELSE IF child.tag = "g" THEN "group"
    ELSE IF child.tag = "text" THEN "axis"
    ELSE IF child.dasharray = "" THEN "baseline"
    ELSE IF child.dasharray = "6,4" THEN "separator"
    ELSE "connector"

\* The shapes of a child in document order: those of a group are its rects
\* and its value labels.
ShapesOf(child) ==
    IF child.tag = "g"
    THEN [e \in 1..Len(child.children) |->
             IF child.children[e].tag = "rect" THEN "rect" ELSE "label"]
    ELSE <<KindOf(child)>>

\* The shapes of the children from child k on, in document order.
RECURSIVE ShapesFrom(_, _)
ShapesFrom(children, k) ==
    IF k > Len(children) THEN <<>>
    ELSE ShapesOf(children[k]) \o ShapesFrom(children, k + 1)

Shapes(element) == ShapesFrom(element.children, 1)

\* The place of a kind of shape in the order of section 4.3.
Rank(kind) ==
    CASE kind = "defs" -> 1
      [] kind = "baseline" -> 2
      [] kind = "separator" -> 3
      [] kind = "connector" -> 4
      [] kind \in {"rect", "group"} -> 5
      [] kind = "label" -> 6
      [] kind = "axis" -> 7

InRankOrder(kinds) ==
    \A i, j \in 1..Len(kinds) : i < j => Rank(kinds[i]) <= Rank(kinds[j])

Count(kinds, kind) == Cardinality({i \in 1..Len(kinds) : kinds[i] = kind})

\* C11 (as claimed): in the output of one render the shapes appear in the
\* order pattern definitions, baseline, separator, connectors, bar
\* rectangles, value labels, axis labels; every rectangle of every bar comes
\* before any value label.
C11_ShapesInStatedOrder == DrewChart => InRankOrder(Shapes(svg))

\* The groups of the bars among the children, in document order.
Groups(element) ==
    SelectSeq(element.children, LAMBDA child : child.tag = "g")

AxisLabels(element) ==
    SelectSeq(element.children, LAMBDA child : child.tag = "text")

\* C11 (amended): the children of the svg element are the pattern
\* definitions, the baseline, the separator if any, the connectors, one group
\* for each bar in the order of the list, and the axis labels in the order of
\* the list; the group of a bar holds the rectangles of that bar and then the
\* value labels of that bar.
C11_GroupsInStatedOrder ==
    DrewChart =>
        LET kinds == [k \in 1..Len(svg.children) |-> KindOf(svg.children[k])]
            groups == Groups(svg)
            labels == AxisLabels(svg)
        IN  /\ InRankOrder(kinds)
            /\ Count(kinds, "defs") = 1
            /\ Count(kinds, "baseline") = 1
            /\ Count(kinds, "separator") <= 1
            /\ Len(groups) = Len(bars)
            /\ \A k \in 1..Len(groups) :
                  /\ groups[k].class = "bar-group bar-type-" \o bars[k].barType
                  /\ InRankOrder(ShapesOf(groups[k]))
                  /\ Count(ShapesOf(groups[k]), "rect") >= 1
                  /\ \A e \in 1..Len(groups[k].children) :
                        groups[k].children[e].x \in
                            {bars[k].xPosition,
                             RAdd(bars[k].xPosition,
                                  RDiv(StoredOr(computedBarWidth,
                                         formattingSettings.chartSettings.barWidth),
                                       R(2)))}
            /\ Len(labels) =
                  (IF formattingSettings.axisSettings.showXAxis
                   THEN Len(bars) ELSE 0)
            /\ \A k \in 1..Len(labels) : labels[k].text = bars[k].category

\* A drawing with a separator, a connector, two groups with value labels
\* after the first of which come the rectangles of the second, and axis
\* labels.
C11_Witness ==
    /\ DrewChart
    /\ Count(Shapes(svg), "separator") = 1
    /\ Count(Shapes(svg), "connector") >= 1
    /\ Count(Shapes(svg), "axis") = Len(bars)
    /\ Len(Groups(svg)) = 3
    /\ \A k \in 1..3 : Count(ShapesOf(Groups(svg)[k]), "label") >= 1
    /\ ~InRankOrder(Shapes(svg))

\* The pixel coordinate of a value on the scale of the drawing.
PixelY(value) ==
    LET found == MaxValue(bars, Len(bars))
    IN  yScale(R(value), IF found = 0 THEN 1 ELSE found,
               options.viewport.height - MarginTop - MarginBottom)

\* The value labels of a group: its dark texts (those of the stacked values
\* are white).
ValueLabelsOf(group) ==
    SelectSeq(group.children,
              LAMBDA child : child.tag = "text" /\ child.fill = "#333")

ShowsValues == DrewChart /\ formattingSettings.chartSettings.showValues

\* The label of bar k is alone, centered on the bar and above the pixel
\* coordinate top.
LabelledAbove(k, top) ==
    LET labels == ValueLabelsOf(Groups(svg)[k])
    IN  /\ Len(labels) = 1
        /\ labels[1].anchor = "middle"
        /\ labels[1].x =
              RAdd(bars[k].xPosition,
                   RDiv(StoredOr(computedBarWidth,
                                 formattingSettings.chartSettings.barWidth),
                        R(2)))
        /\ RLt(labels[1].y, top)

\* C12 (as claimed): when showValues is on, every bar, of positive or of
\* negative span, has one value label, centered on the bar, at a pixel y
\* smaller than the smaller of the pixel coordinates of its startY and endY.
C12_ValueLabelAboveTopEdge ==
    ShowsValues =>
        \A k \in 1..Len(bars) :
            LabelledAbove(k, RMin(PixelY(bars[k].startY), PixelY(bars[k].endY)))

\* What does hold: the label is above the pixel coordinate of endY, which is
\* the top edge of the bars whose endY is not below their startY.
ValueLabelAboveEndY ==
    ShowsValues =>
        \A k \in 1..Len(bars) : LabelledAbove(k, PixelY(bars[k].endY))

\* The fields of a bar that the layout is to write.
LayoutFields == {"startY", "endY", "xPosition"}

\* Bar b has the fields of bar a, with the same values but for those in
\* fields.
SameBut(a, b, fields) ==
    /\ DOMAIN b = DOMAIN a
    /\ \A f \in DOMAIN a \ fields : b[f] = a[f]

\* C13: after an update that drew the chart, the bars are those parseData
\* returned, in the same order and with the same category, barType,
\* sequence, stackedValues and totalValue: computeBarPositions has written
\* only startY, endY and xPosition, and renderChart has left the bars as
\* computeBarPositions left them.
C13_LayoutAndDrawKeepTheList ==
    DrewChart =>
        LET parsed == parseData(options.dataView, formattingSettings)
            positioned ==
                computeBarPositions(parsed, formattingSettings,
                                    options.viewport.width).bars
        IN  /\ Len(bars) = Len(parsed)
            /\ \A k \in 1..Len(parsed) : SameBut(parsed[k], bars[k], LayoutFields)
            /\ bars = positioned

\* Three bars that the layout has moved and given spans, whose list is in
\* the order of neither their values nor their spans.
C13_Witness ==
    /\ DrewChart
    /\ Len(bars) = 3
    /\ bars # parseData(options.dataView, formattingSettings)
    /\ bars[1].endY # 0
    /\ bars[2].xPosition # bars[1].xPosition
    /\ bars[1].totalValue > bars[2].totalValue
    /\ bars[2].totalValue < bars[3].totalValue
    /\ bars[2].stackedValues # bars[1].stackedValues

\* The rects of the stacked values of a group: those with a white stroke.
StackRectsOf(group) ==
    SelectSeq(group.children,
              LAMBDA child : child.tag = "rect" /\ child.stroke = "#fff")

\* The pixel coordinates of the two horizontal edges of a rect.
Edges(rect) == {rect.y, RAdd(rect.y, rect.height)}

\* The rects from rect e on lie edge to edge from the pixel coordinate from
\* to the pixel coordinate to.
RECURSIVE Tiles(_, _, _, _)
Tiles(rects, e, from, to) ==
    IF e > Len(rects) THEN from = to
    ELSE /\ from \in Edges(rects[e])
         /\ \E next \in Edges(rects[e]) \ {from} : Tiles(rects, e + 1, next, to)

SegmentsTileSpan(k) ==
    LET rects == StackRectsOf(Groups(svg)[k])
    IN  Len(rects) > 0 =>
            Tiles(rects, 1, PixelY(bars[k].startY), PixelY(bars[k].endY))

\* C14 (as claimed): the stacked segments of a bar of any type tile the
\* span of the bar: the first starts at startY, each next one starts where
\* the one before ends, and the last ends at endY.
C14_SegmentsTileTheSpan ==
    DrewChart => \A k \in 1..Len(bars) : SegmentsTileSpan(k)

\* What does hold: the same for the bars of type step and of type bar.
SegmentsTileStepsAndBars ==
    DrewChart =>
        \A k \in 1..Len(bars) :
            bars[k].barType \in {"step", "bar"} => SegmentsTileSpan(k)

\* The single rect of a group with its tooltip: a rect without the stroke of
\* the stacked values, and not the pattern laid over it.
TooltipRectsOf(group) ==
    SelectSeq(group.children,
              LAMBDA child : /\ child.tag = "rect"
                             /\ child.stroke = ""
                             /\ child.fill # "url(#dots-pattern)")

\* The value label and the tooltip of the single rect of bar k, where there
\* is one, print the formatted value.
Prints(k, value) ==
    LET group == Groups(svg)[k]
    IN  /\ \A i \in 1..Len(ValueLabelsOf(group)) :
              ValueLabelsOf(group)[i].text = formatValue(R(value))
        /\ \A i \in 1..Len(TooltipRectsOf(group)) :
              TooltipRectsOf(group)[i].title =
                  bars[k].category \o ": " \o formatValue(R(value))

\* C15 (as claimed): for every bar of every type, the value label and the
\* tooltip of the single rectangle print the formatted endY - startY of the
\* bar; for a subtotal or total bar, the running total it shows.
C15_LabelPrintsTheSpan ==
    DrewChart =>
        \A k \in 1..Len(bars) : Prints(k, bars[k].endY - bars[k].startY)

\* What does hold: the same for the bars of type step and of type bar, and
\* for every bar with its totalValue in place of its span.
LabelPrintsTotalValue ==
    DrewChart =>
        \A k \in 1..Len(bars) :
            /\ Prints(k, bars[k].totalValue)
            /\ bars[k].barType \in {"step", "bar"} =>
                  Prints(k, bars[k].endY - bars[k].startY)

=============================================================================
